---- MODULE Spec2Model ----
(***************************************************************************)
(* plugin-dva (packages/plugin-dva/src/index.ts): model discovery, the     *)
(* hasModels flag, temp-file generation, the runtime hooks and the `dva`   *)
(* command.                                                                *)
(*                                                                         *)
(* A path is a record [dir |-> sequence of directory segments,             *)
(* name |-> the file name as a sequence of one-character strings].         *)
(* The path separator is the boundary between segments, so winPath (which  *)
(* only rewrites separators) has nothing to rewrite.                       *)
(***************************************************************************)
EXTENDS Integers, Sequences, FiniteSets, TLC

VARIABLES
    fs,           \* the files that exist: a set of paths
    unreadable,   \* the directories the process may not read
    cfg,          \* api.config: singular, dva.skipModelValidate, dva.extraModels
    hasModels,    \* index.ts:85
    lastNonEmpty, \* history: the last list onStart or a pass computed had models
    out           \* the observable effect of the last handler that ran

vars == <<fs, unreadable, cfg, hasModels, lastNonEmpty, out>>

-----------------------------------------------------------------------------
(* Bounds *)

\* most paths configured in dva.extraModels
MaxExtras == 2
\* most files present at once in the small project
MaxFiles == 2

-----------------------------------------------------------------------------
(* Characters and file names *)

LowerChars == <<"a","b","c","d","e","f","g","h","i","j","k","l","m",
                "n","o","p","q","r","s","t","u","v","w","x","y","z">>
UpperChars == <<"A","B","C","D","E","F","G","H","I","J","K","L","M",
                "N","O","P","Q","R","S","T","U","V","W","X","Y","Z">>
DigitChars == <<"0","1","2","3","4","5","6","7","8","9">>

Range(s) == { s[i] : i \in 1..Len(s) }

IsLower(c) == c \in Range(LowerChars)
IsUpper(c) == c \in Range(UpperChars)
IsDigit(c) == c \in Range(DigitChars)

IndexOf(s, c) == CHOOSE i \in 1..Len(s) : s[i] = c

toLowerChar(c) == IF IsUpper(c) THEN LowerChars[IndexOf(UpperChars, c)] ELSE c
toUpperChar(c) == IF IsLower(c) THEN UpperChars[IndexOf(LowerChars, c)] ELSE c

toLowerCase(s) == [i \in 1..Len(s) |-> toLowerChar(s[i])]

N_user == <<"u","s","e","r">>
N_userProfile == <<"u","s","e","r","P","r","o","f","i","l","e">>
N_broken == <<"b","r","o","k","e","n">>
N_model == <<"m","o","d","e","l">>
N_index == <<"i","n","d","e","x">>
N_helper == <<"h","e","l","p","e","r">>
N_README == <<"R","E","A","D","M","E">>
E_ts == <<"t","s">>
E_tsx == <<"t","s","x">>
E_js == <<"j","s">>
E_jsx == <<"j","s","x">>
E_md == <<"m","d">>

FileName(stem, ext) == stem \o <<".">> \o ext

-----------------------------------------------------------------------------
(* node path: basename, extname, dirname, join, relative *)

LastDot(name) ==
    IF \E i \in 1..Len(name) : name[i] = "."
    THEN CHOOSE i \in 1..Len(name) :
            /\ name[i] = "."
            /\ \A j \in (i+1)..Len(name) : name[j] # "."
    ELSE 0

\* extname: from the last dot on; "" without a dot, for a leading dot, for ".."
extname(p) ==
    LET n == p.name
        d == LastDot(n)
    IN  IF d <= 1 \/ n = <<".", ".">> THEN <<>> ELSE SubSeq(n, d, Len(n))

\* basename(path, ext): the last segment, without ext when it ends in it
basename(p, ext) ==
    LET n == p.name
    IN  IF /\ Len(ext) > 0
           /\ Len(n) > Len(ext)
           /\ SubSeq(n, Len(n) - Len(ext) + 1, Len(n)) = ext
        THEN SubSeq(n, 1, Len(n) - Len(ext))
        ELSE n

dirname(p) == p.dir

join(dir, seg) == Append(dir, seg)

IsPrefix(a, b) == Len(a) <= Len(b) /\ SubSeq(b, 1, Len(a)) = a

CommonLen(a, b) ==
    CHOOSE k \in 0..Len(a) :
        /\ k <= Len(b)
        /\ SubSeq(a, 1, k) = SubSeq(b, 1, k)
        /\ (k < Len(a) /\ k < Len(b)) => a[k+1] # b[k+1]

\* relative(from, to): ".." for each segment of from below the common
\* ancestor, then the rest of to
relative(from, p) ==
    LET k == CommonLen(from, p.dir)
    IN  [up |-> Len(from) - k,
         dir |-> SubSeq(p.dir, k + 1, Len(p.dir)),
         name |-> p.name]

-----------------------------------------------------------------------------
(* lodash: uniq, upperFirst, camelCase *)

RECURSIVE uniqFrom(_, _)
uniqFrom(s, acc) ==
    IF s = <<>> THEN acc
    ELSE uniqFrom(Tail(s),
                  IF Head(s) \in Range(acc) THEN acc ELSE Append(acc, Head(s)))

\* lodash.uniq: the first occurrence of each element, in order
uniq(s) == uniqFrom(s, <<>>)

\* lodash.upperFirst
upperFirst(s) ==
    IF s = <<>> THEN s ELSE <<toUpperChar(s[1])>> \o Tail(s)

IsAlnum(c) == IsLower(c) \/ IsUpper(c) \/ IsDigit(c)

\* lodash hasUnicodeWord:
\* /[a-z][A-Z]|[A-Z]{2}[a-z]|[0-9][a-zA-Z]|[a-zA-Z][0-9]|[^a-zA-Z0-9 ]/
hasUnicodeWord(s) ==
    \/ \E i \in 1..Len(s) : ~IsAlnum(s[i]) /\ s[i] # " "
    \/ \E i \in 1..(Len(s) - 1) :
          \/ IsLower(s[i]) /\ IsUpper(s[i+1])
          \/ IsDigit(s[i]) /\ (IsLower(s[i+1]) \/ IsUpper(s[i+1]))
          \/ (IsLower(s[i]) \/ IsUpper(s[i])) /\ IsDigit(s[i+1])
    \/ \E i \in 1..(Len(s) - 2) :
          IsUpper(s[i]) /\ IsUpper(s[i+1]) /\ IsLower(s[i+2])

\* the last index of the run of characters satisfying P that starts at i
RunEnd(s, i, P(_)) ==
    CHOOSE j \in (i-1)..Len(s) :
        /\ \A k \in i..j : P(s[k])
        /\ j < Len(s) => ~P(s[j+1])

\* lodash asciiWords: the runs of ASCII letters and digits
RECURSIVE asciiWordsFrom(_, _)
asciiWordsFrom(s, i) ==
    IF i > Len(s) THEN <<>>
    ELSE IF ~IsAlnum(s[i]) THEN asciiWordsFrom(s, i + 1)
    ELSE LET j == RunEnd(s, i, IsAlnum)
         IN  <<SubSeq(s, i, j)>> \o asciiWordsFrom(s, j + 1)

\* Where the word of lodash's reUnicodeWord that starts at i ends, for names
\* of ASCII letters, digits and separators without apostrophes or English
\* ordinals (1st, 2nd, ...): a digit run; a lower-case run; a capitalised
\* lower-case run; or an upper-case run, which gives up its last letter when
\* a lower-case letter follows it.
unicodeWordEnd(s, i) ==
    IF IsDigit(s[i]) THEN RunEnd(s, i, IsDigit)
    ELSE IF IsLower(s[i]) THEN RunEnd(s, i, IsLower)
    ELSE LET u == RunEnd(s, i, IsUpper)
             followedByLower == u < Len(s) /\ IsLower(s[u+1])
         IN  IF ~followedByLower THEN u
             ELSE IF u = i THEN RunEnd(s, i + 1, IsLower)
             ELSE u - 1

RECURSIVE unicodeWordsFrom(_, _)
unicodeWordsFrom(s, i) ==
    IF i > Len(s) THEN <<>>
    ELSE IF ~IsAlnum(s[i]) THEN unicodeWordsFrom(s, i + 1)
    ELSE LET j == unicodeWordEnd(s, i)
         IN  <<SubSeq(s, i, j)>> \o unicodeWordsFrom(s, j + 1)

\* lodash.words
words(s) ==
    IF hasUnicodeWord(s) THEN unicodeWordsFrom(s, 1) ELSE asciiWordsFrom(s, 1)

\* lodash.capitalize
capitalize(s) == upperFirst(toLowerCase(s))

RECURSIVE camelJoin(_, _, _)
camelJoin(ws, k, result) ==
    IF k > Len(ws) THEN result
    ELSE camelJoin(ws, k + 1,
                   result \o (IF k > 1 THEN capitalize(toLowerCase(ws[k]))
                              ELSE toLowerCase(ws[k])))

\* lodash.camelCase
camelCase(s) == camelJoin(words(s), 1, <<>>)

RECURSIVE decimal(_)
\* Number -> string, as a template literal interpolates it
decimal(n) ==
    IF n < 10 THEN <<DigitChars[n + 1]>>
    ELSE decimal(n \div 10) \o <<DigitChars[(n % 10) + 1]>>

-----------------------------------------------------------------------------
(* The project on disk *)

\* api.cwd, api.paths.absSrcPath, api.paths.absPagesPath, api.paths.absTmpPath
cwd == <<"proj">>
absSrcPath == <<"proj", "src">>
absPagesPath == <<"proj", "src", "pages">>
absTmpPath == <<"proj", "src", ".umi">>

File(dir, stem, ext) == [dir |-> dir, name |-> FileName(stem, ext)]

SrcModelsUser == File(<<"proj","src","models">>, N_user, E_ts)
SrcModelsBroken == File(<<"proj","src","models">>, N_broken, E_ts)
SrcModelsReadme == File(<<"proj","src","models">>, N_README, E_md)
SrcModelUser == File(<<"proj","src","model">>, N_user, E_js)
PagesIndex == File(<<"proj","src","pages">>, N_index, E_tsx)
PagesAModel == File(<<"proj","src","pages","a">>, N_model, E_ts)
PagesAModelsUser == File(<<"proj","src","pages","a","models">>, N_user, E_ts)
PagesModelModel == File(<<"proj","src","pages","model">>, N_model, E_jsx)
PagesModelsModel == File(<<"proj","src","pages","models">>, N_model, E_tsx)
UtilsHelper == File(<<"proj","src","utils">>, N_helper, E_ts)
SrcModelsUserN(d) == File(<<"proj","src","models">>, N_user \o <<DigitChars[d + 1]>>, E_ts)
SrcModelsUserProfile == File(<<"proj","src","models">>, N_userProfile, E_ts)

\* Every file of the model's projects, in the order the platform's directory
\* scan lists them (here: path order).
AllFiles ==
    << SrcModelUser, SrcModelsReadme, SrcModelsBroken, SrcModelsUser >>
    \o [d \in 1..9 |-> SrcModelsUserN(d)]
    \o << SrcModelsUserProfile, PagesAModel, PagesAModelsUser, PagesIndex, PagesModelModel,
       PagesModelsModel, UtilsHelper >>

\* The files the small project may hold
SmallFiles ==
    { SrcModelUser, SrcModelsBroken, SrcModelsUser,
      PagesAModel, PagesIndex, PagesModelModel }

\* A project of eleven models: user1.ts .. user9.ts and userProfile.ts in
\* src/models (beside a README.md), user.ts in a pages models folder
WideProject ==
    { SrcModelsUserN(d) : d \in 1..9 }
    \cup { SrcModelsUserProfile, PagesAModelsUser, SrcModelsReadme }

\* the files of the wide project that come and go
WideVolatile ==
    { SrcModelsUserN(1), SrcModelsUserN(9), SrcModelsUserProfile,
      PagesAModelsUser, PagesModelsModel }

\* Files whose content is not a well-formed model module (e.g. a module
\* exporting only a string constant)
Malformed == { SrcModelsBroken, UtilsHelper }

\* The paths dva.extraModels may name: a malformed file no scan finds, a
\* file the source scan finds
ExtraPool == { UtilsHelper, SrcModelsUser }

RECURSIVE SeqsUpTo(_, _)
SeqsUpTo(S, n) ==
    IF n = 0 THEN { <<>> }
    ELSE LET shorter == SeqsUpTo(S, n - 1)
         IN  shorter \cup { Append(s, x) : s \in shorter, x \in S }

\* The directories discovery is based at
BaseDirs == { join(absSrcPath, "model"), join(absSrcPath, "models"), absPagesPath }

\* A directory exists when a file lies in it or below it
DirExists(d) == \E f \in fs : IsPrefix(d, f.dir)

-----------------------------------------------------------------------------
(* getModels: glob discovery, structural validation, extra models *)

SourceExts == { E_ts, E_tsx, E_js, E_jsx }

\* A glob pattern: directory segments ("**" or a folder name), the file
\* stem ("*" or a name) and the brace list of extensions
Pattern(dirs, stem, exts) == [given |-> TRUE, dirs |-> dirs, stem |-> stem, exts |-> exts]
NoPattern == [given |-> FALSE, dirs |-> <<>>, stem |-> <<>>, exts |-> {}]

HasExt(name, ext) ==
    /\ Len(name) > Len(ext) + 1
    /\ SubSeq(name, Len(name) - Len(ext), Len(name)) = <<".">> \o ext

\* the file part of a pattern: `*` matches any stem that does not start
\* with a dot
NameMatch(pat, name) ==
    \E ext \in pat.exts :
        /\ HasExt(name, ext)
        /\ LET stem == SubSeq(name, 1, Len(name) - Len(ext) - 1)
           IN  IF pat.stem = <<"*">> THEN stem[1] # "." ELSE stem = pat.stem

RECURSIVE DirMatch(_, _)
\* the directory part of a pattern: `**` matches any number of folders
DirMatch(pat, segs) ==
    IF pat = <<>> THEN segs = <<>>
    ELSE IF Head(pat) = "**"
         THEN DirMatch(Tail(pat), segs)
              \/ (segs # <<>> /\ DirMatch(pat, Tail(segs)))
         ELSE segs # <<>> /\ Head(segs) = Head(pat)
              /\ DirMatch(Tail(pat), Tail(segs))

GlobMatch(pat, base, f) ==
    /\ IsPrefix(base, f.dir)
    /\ DirMatch(pat.dirs, SubSeq(f.dir, Len(base) + 1, Len(f.dir)))
    /\ NameMatch(pat, f.name)

\* The default pattern: the source files directly inside a folder of the
\* conventional name (the name of the base the caller selected), at any depth
DefaultMatch(base, f) ==
    /\ IsPrefix(base, f.dir)
    /\ f.dir[Len(f.dir)] = base[Len(base)]
    /\ \E ext \in SourceExts : HasExt(f.name, ext) /\ f.name[1] # "."

\* the platform's directory-scan order
ScanOrder == AllFiles

\* the files of the base directory that match, in scan order
Scan(base, pat) ==
    LET Hit(f) == /\ f \in fs
                  /\ IF pat.given THEN GlobMatch(pat, base, f)
                     ELSE DefaultMatch(base, f)
    IN  SelectSeq(ScanOrder, Hit)

\* the structural check of a candidate's content
isValidModel(f) == f \notin Malformed

Ok(list) == [err |-> FALSE, list |-> list]
Raise == [err |-> TRUE, list |-> <<>>]

\* getModels({ base, pattern, skipModelValidate, extraModels })
getModels(opts) ==
    IF ~DirExists(opts.base) THEN Ok(<<>>)
    ELSE IF opts.base \in unreadable THEN Raise
    ELSE LET Keep(f) == opts.skipModelValidate \/ isValidModel(f)
         IN  Ok(SelectSeq(Scan(opts.base, opts.pattern), Keep) \o opts.extraModels)

-----------------------------------------------------------------------------
(* index.ts: discovery *)

\* index.ts:13-17
getModelDir(c) == IF c.singular THEN "model" ELSE "models"

\* index.ts:20-24
getSrcModelsPath(c) == join(absSrcPath, getModelDir(c))

\* baseOpts that forgets dva.extraModels
baseOptsNoExtras(c) ==
    [skipModelValidate |-> c.skipModelValidate, extraModels |-> <<>>]

\* index.ts:60-63
baseOpts(c) ==
    [skipModelValidate |-> c.skipModelValidate, extraModels |-> c.extraModels]

Opts(base, pattern, b) ==
    [base |-> base, pattern |-> pattern,
     skipModelValidate |-> b.skipModelValidate, extraModels |-> b.extraModels]

\* the pages nested pattern without its folder segment
DiscoveryCallsAnyFolder(c) ==
    << Opts(getSrcModelsPath(c), NoPattern, baseOpts(c)),
       Opts(absPagesPath, Pattern(<<"**">>, <<"*">>, SourceExts), baseOpts(c)),
       Opts(absPagesPath, Pattern(<<"**">>, N_model, SourceExts), baseOpts(c)) >>

\* the co-located pattern named after the configured folder
DiscoveryCallsFolderFile(c) ==
    << Opts(getSrcModelsPath(c), NoPattern, baseOpts(c)),
       Opts(absPagesPath,
            Pattern(<<"**", getModelDir(c), "**">>, <<"*">>, SourceExts),
            baseOpts(c)),
       Opts(absPagesPath,
            Pattern(<<"**">>, IF c.singular THEN N_model ELSE Append(N_model, "s"),
                    SourceExts),
            baseOpts(c)) >>

\* index.ts:66-80: the options of the three getModels calls
DiscoveryCalls(c) ==
    << Opts(getSrcModelsPath(c), NoPattern, baseOpts(c)),
       Opts(absPagesPath,
            Pattern(<<"**", getModelDir(c), "**">>, <<"*">>, SourceExts),
            baseOpts(c)),
       Opts(absPagesPath, Pattern(<<"**">>, N_model, SourceExts), baseOpts(c)) >>

\* the three results spread into one array (index.ts:65-81, before uniq)
Spread(calls) ==
    getModels(calls[1]).list \o getModels(calls[2]).list \o getModels(calls[3]).list

\* getAllModels without lodash.uniq
getAllModelsNoUniq(c) ==
    LET calls == DiscoveryCalls(c)
    IN  IF \E i \in 1..3 : getModels(calls[i]).err THEN Raise
        ELSE Ok(Spread(calls))

\* getAllModels that rescans only the source directory once hasModels is set
getAllModelsSourceOnly(c) ==
    LET calls == DiscoveryCalls(c)
    IN  IF \E i \in 1..3 : getModels(calls[i]).err THEN Raise
        ELSE IF hasModels THEN Ok(uniq(getModels(calls[1]).list))
        ELSE Ok(uniq(Spread(calls)))

\* index.ts:58-82; an error of a getModels call propagates
getAllModels(c) ==
    LET calls == DiscoveryCalls(c)
    IN  IF \E i \in 1..3 : getModels(calls[i]).err THEN Raise
        ELSE Ok(uniq(Spread(calls)))

-----------------------------------------------------------------------------
(* index.ts: the generated files.  The content of a temp file is the view  *)
(* handed to Mustache.render; a string joined with \r\n is the sequence of *)
(* its lines.                                                              *)

S_Model == <<"M","o","d","e","l">>

\* index.ts:132-135: the identifier of the import line
importIdent(path, index) ==
    S_Model \o upperFirst(camelCase(basename(path, extname(path)))) \o decimal(index)

\* index.ts:142: the identifier the registration line spreads
registerIdent(path, index) ==
    S_Model \o upperFirst(camelCase(basename(path, extname(path)))) \o decimal(index)

\* index.ts:129-137
RegisterModelImports(models) ==
    [i \in 1..Len(models) |->
        [ident |-> importIdent(models[i], i - 1), from |-> models[i]]]

\* registrations whose namespace keeps the extension
RegisterModelsKeepExt(models) ==
    [i \in 1..Len(models) |->
        [namespace |-> basename(models[i], <<>>),
         ident |-> registerIdent(models[i], i - 1)]]

\* index.ts:138-145
RegisterModels(models) ==
    [i \in 1..Len(models) |->
        [namespace |-> basename(models[i], extname(models[i])),
         ident |-> registerIdent(models[i], i - 1)]]

\* index.ts:120-151
dvaContent(config, models) ==
    [RegisterPlugins |-> IF config.immer THEN <<"dva-immer">> ELSE <<>>,
     RegisterModelImports |-> RegisterModelImports(models),
     RegisterModels |-> RegisterModels(models)]

\* index.ts:158-160
runtimeContent(config) == [SSR |-> config.ssr]

\* index.ts:173-175, 183-185
exportsContent(dva26) ==
    [exportMethods |-> IF dva26
                       THEN <<"connect", "useDispatch", "useStore", "useSelector">>
                       ELSE <<"connect">>]

\* index.ts:193-209
connectContent(config, models) ==
    [dvaHeadExport |->
        IF config.disableModelsReExport THEN <<>>
        ELSE [i \in 1..Len(models) |->
                 [dir |-> dirname(models[i]),
                  name |-> basename(models[i], extname(models[i]))]],
     dvaLoadingModels |->
        [i \in 1..Len(models) |-> basename(models[i], extname(models[i]))]]

\* index.ts:117-210: the writeTmpFile calls of a pass that has models
GeneratedFiles(config, dva26, models) ==
    << [path |-> "plugin-dva/dva.ts", content |-> dvaContent(config, models)],
       [path |-> "plugin-dva/runtime.tsx", content |-> runtimeContent(config)],
       [path |-> "plugin-dva/exports.ts", content |-> exportsContent(dva26)],
       [path |-> "plugin-dva/connect.ts", content |-> connectContent(config, models)] >>

\* the emptiness test off by one
computeHasModelsOffByOne(models) == Len(models) > 1

\* index.ts:104
computeHasModels(models) == Len(models) > 0

\* a pass without the early return of index.ts:112
TmpWritesUnguarded(config, dva26, models) == GeneratedFiles(config, dva26, models)

\* index.ts:112-210
TmpWrites(config, dva26, models) ==
    IF ~computeHasModels(models) THEN <<>>
    ELSE GeneratedFiles(config, dva26, models)

-----------------------------------------------------------------------------
(* index.ts: the hooks that read hasModels, the watcher path, the command *)

\* index.ts:246-248
addRuntimePlugin ==
    IF hasModels THEN << join(absTmpPath, "plugin-dva/runtime.tsx") >> ELSE <<>>

\* index.ts:251
addRuntimePluginKey == IF hasModels THEN << "dva" >> ELSE <<>>

\* index.ts:254-267
addUmiExports ==
    IF hasModels
    THEN << [exportAll |-> TRUE, source |-> "../plugin-dva/exports"],
            [exportAll |-> TRUE, source |-> "../plugin-dva/connect"] >>
    ELSE <<>>

\* index.ts:219
addTmpGenerateWatcherPaths(c) == << getSrcModelsPath(c) >>

\* the command test that looks at the first argument only
isListModelFirstOnly(args) ==
    /\ Len(args) >= 1
    /\ args[1] = "list"

\* index.ts:274
isListModel(args) ==
    /\ Len(args) >= 2
    /\ args[1] = "list"
    /\ args[2] = "model"

\* index.ts:276-280: the lines the command prints for a model list
listOutput(models) ==
    << [kind |-> "title", path |-> <<>>, total |-> 0] >>
    \o [i \in 1..Len(models) |->
           [kind |-> "item", path |-> <<relative(cwd, models[i])>>, total |-> 0]]
    \o << [kind |-> "total", path |-> <<>>, total |-> Len(models)] >>

-----------------------------------------------------------------------------
(* The state machine *)

Configs ==
    [singular : BOOLEAN, skipModelValidate : BOOLEAN,
     extraModels : SeqsUpTo(ExtraPool, MaxExtras)]

\* the rest of api.config a generation pass reads, and whether the
\* installed dva is a 2.6 release
GenConfigs ==
    { [immer |-> FALSE, disableModelsReExport |-> FALSE, ssr |-> FALSE, dva26 |-> TRUE],
      [immer |-> TRUE, disableModelsReExport |-> TRUE, ssr |-> TRUE, dva26 |-> FALSE] }

\* api.config as a generation pass sees it
FullConfig(c, g) ==
    [singular |-> c.singular, skipModelValidate |-> c.skipModelValidate,
     extraModels |-> c.extraModels, immer |-> g.immer,
     disableModelsReExport |-> g.disableModelsReExport, ssr |-> g.ssr]

\* args._ of the dva command
ArgLists == { <<"list", "model">>, <<"list">>, <<"model", "list">> }

NoOut ==
    [op |-> "none", args |-> <<>>, err |-> FALSE, models |-> <<>>,
     writes |-> <<>>, printed |-> <<>>, ret |-> <<>>]

Init ==
    /\ fs = {}
    /\ unreadable = {}
    /\ cfg \in Configs
    /\ hasModels = FALSE
    /\ lastNonEmpty = FALSE
    /\ out = NoOut

\* index.ts:88-90
OnStart ==
    LET r == getAllModels(cfg)
    IN  /\ hasModels' = IF r.err THEN hasModels ELSE computeHasModels(r.list)
        /\ lastNonEmpty' = IF r.err THEN lastNonEmpty ELSE r.list # <<>>
        /\ out' = [NoOut EXCEPT !.op = "onStart", !.err = r.err, !.models = r.list]
        /\ UNCHANGED <<fs, unreadable, cfg>>

\* index.ts:101-215
OnGenerateFiles(g) ==
    LET r == getAllModels(cfg)
    IN  /\ hasModels' = IF r.err THEN hasModels ELSE computeHasModels(r.list)
        /\ lastNonEmpty' = IF r.err THEN lastNonEmpty ELSE r.list # <<>>
        /\ out' = [NoOut EXCEPT
                     !.op = "onGenerateFiles", !.err = r.err, !.models = r.list,
                     !.writes = IF r.err THEN <<>>
                                ELSE TmpWrites(FullConfig(cfg, g), g.dva26, r.list)]
        /\ UNCHANGED <<fs, unreadable, cfg>>

\* index.ts:270-283
DvaCommand(args) ==
    LET r == IF isListModel(args) THEN getAllModels(cfg) ELSE Ok(<<>>)
    IN  /\ out' = [NoOut EXCEPT
                     !.op = "dva", !.args = args, !.err = r.err, !.models = r.list,
                     !.printed = IF isListModel(args) /\ ~r.err
                                 THEN listOutput(r.list) ELSE <<>>]
        /\ UNCHANGED <<fs, unreadable, cfg, hasModels, lastNonEmpty>>

\* index.ts:246-267: the host collects the three hooks
RuntimeHooks ==
    /\ out' = [NoOut EXCEPT
                 !.op = "hooks",
                 !.ret = << addRuntimePlugin, addRuntimePluginKey, addUmiExports >>]
    /\ UNCHANGED <<fs, unreadable, cfg, hasModels, lastNonEmpty>>

\* index.ts:219
WatcherPaths ==
    /\ out' = [NoOut EXCEPT !.op = "watch", !.ret = addTmpGenerateWatcherPaths(cfg)]
    /\ UNCHANGED <<fs, unreadable, cfg, hasModels, lastNonEmpty>>

\* the project changes on disk: a file appears
WriteFile(f) ==
    /\ f \notin fs
    /\ fs' = fs \cup {f}
    /\ out' = NoOut
    /\ UNCHANGED <<unreadable, cfg, hasModels, lastNonEmpty>>

CreateFile(f) == Cardinality(fs) < MaxFiles /\ WriteFile(f)

\* a file disappears (and with the last one, its directory)
DeleteFile(f) ==
    /\ f \in fs
    /\ fs' = fs \ {f}
    /\ unreadable' = { d \in unreadable : \E h \in fs \ {f} : IsPrefix(d, h.dir) }
    /\ out' = NoOut
    /\ UNCHANGED <<cfg, hasModels, lastNonEmpty>>

\* the permissions of a base directory change (one directory at a time is
\* unreadable)
Chmod(d) ==
    /\ DirExists(d)
    /\ IF d \in unreadable THEN unreadable' = unreadable \ {d}
       ELSE /\ unreadable = {}
            /\ unreadable' = unreadable \cup {d}
    /\ out' = NoOut
    /\ UNCHANGED <<fs, cfg, hasModels, lastNonEmpty>>

Next ==
    \/ OnStart
    \/ \E g \in GenConfigs : OnGenerateFiles(g)
    \/ \E args \in ArgLists : DvaCommand(args)
    \/ RuntimeHooks
    \/ WatcherPaths
    \/ \E f \in SmallFiles : CreateFile(f)
    \/ \E f \in SmallFiles : DeleteFile(f)
    \/ \E d \in BaseDirs : Chmod(d)

Spec == Init /\ [][Next]_vars

\* The project of eleven models, in plural mode with validation on and no
\* extra models
InitWide ==
    /\ fs = WideProject
    /\ unreadable = {}
    /\ cfg = [singular |-> FALSE, skipModelValidate |-> FALSE, extraModels |-> <<>>]
    /\ hasModels = FALSE
    /\ lastNonEmpty = FALSE
    /\ out = NoOut

NextWide ==
    \/ OnStart
    \/ \E g \in GenConfigs : OnGenerateFiles(g)
    \/ \E args \in ArgLists : DvaCommand(args)
    \/ RuntimeHooks
    \/ WatcherPaths
    \/ \E f \in WideVolatile : WriteFile(f)
    \/ \E f \in WideVolatile : DeleteFile(f)
    \/ \E d \in BaseDirs : Chmod(d)

SpecWide == InitWide /\ [][NextWide]_vars

-----------------------------------------------------------------------------
(* Properties *)

\* the handler that ran last called getAllModels
Discovered ==
    \/ out.op \in {"onStart", "onGenerateFiles"}
    \/ out.op = "dva" /\ out.args = <<"list", "model">>

\* ... and the call returned a list
Listed == Discovered /\ ~out.err

Occurrences(s, x) == Cardinality({ i \in 1..Len(s) : s[i] = x })

FirstIndex(s, x) == CHOOSE i \in 1..Len(s) : s[i] = x /\ \A j \in 1..(i-1) : s[j] # x

\* C1: the list getAllModels returns holds every path any of the three
\* discovery calls returned exactly once, holds no other path, and orders
\* the paths by their first occurrence in the concatenation of the three
\* results.
C1_DedupOfConcatenation ==
    Listed =>
        LET all == Spread(DiscoveryCalls(cfg))
            L == out.models
        IN  /\ \A x \in Range(all) : Occurrences(L, x) = 1
            /\ Range(L) \subseteq Range(all)
            /\ \A i, j \in 1..Len(L) :
                  i < j => FirstIndex(all, L[i]) < FirstIndex(all, L[j])

\* a pass over a project where a file is matched twice and extras repeat
C1_Witness ==
    /\ out.op = "onGenerateFiles" /\ ~out.err
    /\ Len(out.models) >= 2
    /\ Len(Spread(DiscoveryCalls(cfg))) >= Len(out.models) + 2
    /\ PagesModelModel \in Range(out.models)

\* the file name without its extension, said without extname: the part
\* before the last dot, or the whole name when no dot follows its first
\* character
IsStem(ns, name) ==
    IF \E k \in 2..Len(name) : name[k] = "."
    THEN \E k \in 2..Len(name) :
            /\ name[k] = "."
            /\ \A j \in (k+1)..Len(name) : name[j] # "."
            /\ ns = SubSeq(name, 1, k - 1)
    ELSE ns = name

\* C2: a generation pass with a non-empty model list writes into dva.ts one
\* app.model registration per model, in list order, whose namespace is the
\* model's file name without its extension; models whose base names differ
\* get different namespaces.
C2_OneRegistrationPerModel ==
    (out.op = "onGenerateFiles" /\ ~out.err /\ out.models # <<>>) =>
        LET regs == out.writes[1].content.RegisterModels
            L == out.models
        IN  /\ out.writes[1].path = "plugin-dva/dva.ts"
            /\ Len(regs) = Len(L)
            /\ \A i \in 1..Len(L) : IsStem(regs[i].namespace, L[i].name)
            /\ \A i, j \in 1..Len(L) :
                  regs[i].namespace = regs[j].namespace
                      => IsStem(regs[i].namespace, L[j].name)

\* user.ts and userProfile.ts registered as user and userProfile
C2_Witness ==
    /\ out.op = "onGenerateFiles" /\ ~out.err
    /\ \E i, j \in 1..Len(out.models) :
          /\ out.writes[1].content.RegisterModels[i].namespace = N_user
          /\ out.writes[1].content.RegisterModels[j].namespace = N_userProfile
          /\ out.models[j] = SrcModelsUserProfile

\* the kept files of one discovery call, without the extras it appends
ScannedOf(opts) == getModels([opts EXCEPT !.extraModels = <<>>]).list

\* C3 as claimed: every path of extraModels is in the list exactly once, and
\* the extras come after the scanned files, in caller-supplied order.
C3_ExtrasLast ==
    Listed =>
        LET E == cfg.extraModels
            L == out.models
        IN  /\ \A e \in Range(E) : Occurrences(L, e) = 1
            /\ \A i, j \in 1..Len(L) :
                  (L[i] \notin Range(E) /\ L[j] \in Range(E)) => i < j
            /\ \A i, j \in 1..Len(L) :
                  (i < j /\ L[i] \in Range(E) /\ L[j] \in Range(E))
                      => FirstIndex(E, L[i]) < FirstIndex(E, L[j])

SomeBaseExists == \E i \in 1..3 : DirExists(DiscoveryCalls(cfg)[i].base)

\* the scanned files of the first discovery call whose base directory exists
FirstScan ==
    LET calls == DiscoveryCalls(cfg)
        k == CHOOSE i \in 1..3 :
                /\ DirExists(calls[i].base)
                /\ \A j \in 1..(i-1) : ~DirExists(calls[j].base)
    IN  ScannedOf(calls[k])

\* C3, amended: when a base directory exists, every path of extraModels is
\* in the list exactly once, validated or not; the extras follow the files
\* scanned by the first discovery call whose base directory exists and
\* precede the files only later calls find, in caller-supplied order, except
\* that an extra that scan returned keeps its scanned position.
C3_ExtrasAfterFirstScan ==
    (Listed /\ SomeBaseExists) =>
        LET E == Range(cfg.extraModels)
            S == Range(FirstScan)
            L == out.models
        IN  /\ \A e \in E : Occurrences(L, e) = 1
            /\ \A i, j \in 1..Len(L) :
                  /\ (L[i] \in S /\ L[j] \in E \ S) => i < j
                  /\ (L[i] \in E /\ L[j] \notin E \cup S) => i < j
                  /\ (i < j /\ L[i] \in E \ S /\ L[j] \in E \ S)
                        => FirstIndex(cfg.extraModels, L[i])
                             < FirstIndex(cfg.extraModels, L[j])

\* validation on, a malformed extra in the list, an extra the source scan
\* also found, and a pages model after the extras
C3_Witness ==
    /\ Listed /\ ~cfg.skipModelValidate
    /\ Len(out.models) >= 3
    /\ out.models[1] = SrcModelsUser
    /\ cfg.extraModels = << UtilsHelper, SrcModelsUser >>
    /\ out.models[2] = UtilsHelper
    /\ out.models[3] \notin Range(cfg.extraModels)

\* no file of the project lies in or below a folder named model or models
NoModelFolder ==
    \A f \in fs : \A i \in 1..Len(f.dir) : f.dir[i] \notin {"model", "models"}

\* a model.{ts,tsx,js,jsx} file somewhere under the pages directory
CoLocated(f) ==
    /\ IsPrefix(absPagesPath, f.dir)
    /\ \E ext \in SourceExts : f.name = FileName(N_model, ext)

\* C4 as claimed: without a model/models folder in the source and pages
\* directories, getAllModels returns an empty list and raises no error.
C4_EmptyWithoutModelFolder ==
    (Discovered /\ NoModelFolder) => (~out.err /\ out.models = <<>>)

\* C4, amended: without a model/models folder, getAllModels returns an empty
\* list and raises no error, provided the pages directory holds no co-located
\* model.{ts,tsx,js,jsx} file and is readable, and extraModels is empty.
C4_EmptyWithoutModels ==
    ( /\ Discovered
      /\ NoModelFolder
      /\ \A f \in fs : ~CoLocated(f)
      /\ absPagesPath \notin unreadable
      /\ cfg.extraModels = <<>> )
    => (~out.err /\ out.models = <<>>)

\* a project with pages but no source models directory and no model
C4_Witness ==
    /\ Discovered /\ NoModelFolder
    /\ fs = { PagesIndex }
    /\ unreadable = {}
    /\ cfg.extraModels = <<>>
    /\ out.models = <<>>

\* api.config with the singular flag changed
Flip(c) == [c EXCEPT !.singular = ~c.singular]

FolderOf(c) == IF c.singular THEN "model" ELSE "models"

\* C5: changing the singular flag changes the folder name (model when set,
\* models otherwise) in the source base path, in the pages nested-folder
\* pattern and in the watched path, and nothing else: the co-located
\* pattern, the options of each discovery call, the dedup step and the
\* content generated for a given model list are the same for both values.
C5_OnlyTheFolderName ==
    LET c1 == Flip(cfg)
        a == DiscoveryCalls(cfg)
        b == DiscoveryCalls(c1)
        r1 == getAllModels(c1)
    IN  /\ a[1].base = <<"proj", "src", FolderOf(cfg)>>
        /\ b[1].base = <<"proj", "src", FolderOf(c1)>>
        /\ a[1] = [b[1] EXCEPT !.base = a[1].base]
        /\ a[2].pattern.dirs = <<"**", FolderOf(cfg), "**">>
        /\ b[2].pattern.dirs = <<"**", FolderOf(c1), "**">>
        /\ a[2] = [b[2] EXCEPT !.pattern.dirs = a[2].pattern.dirs]
        /\ a[3] = b[3]
        /\ addTmpGenerateWatcherPaths(cfg) = << <<"proj", "src", FolderOf(cfg)>> >>
        /\ addTmpGenerateWatcherPaths(c1) = << <<"proj", "src", FolderOf(c1)>> >>
        /\ ~r1.err =>
              /\ \A x \in Range(Spread(b)) : Occurrences(r1.list, x) = 1
              /\ Range(r1.list) \subseteq Range(Spread(b))
        /\ \A g \in GenConfigs :
              TmpWrites(FullConfig(cfg, g), g.dva26, out.models)
                  = TmpWrites(FullConfig(c1, g), g.dva26, out.models)

\* a pass in singular mode that found models the plural mode would not
C5_Witness ==
    /\ cfg.singular
    /\ out.op = "onGenerateFiles" /\ ~out.err
    /\ SrcModelUser \in Range(out.models)
    /\ ~getAllModels(Flip(cfg)).err
    /\ SrcModelUser \notin Range(getAllModels(Flip(cfg)).list)

C8_WritesIffModels ==
    out.op = "onGenerateFiles" =>
        IF ~out.err /\ out.models # <<>>
        THEN [i \in 1..Len(out.writes) |-> out.writes[i].path]
                = << "plugin-dva/dva.ts", "plugin-dva/runtime.tsx",
                     "plugin-dva/exports.ts", "plugin-dva/connect.ts" >>
        ELSE out.writes = <<>>

\* a pass that found one model and wrote the four files
C8_Witness ==
    /\ out.op = "onGenerateFiles"
    /\ Len(out.models) = 1
    /\ Len(out.writes) = 4

\* C9: hasModels is true exactly when the most recent onStart or generation
\* pass computed a non-empty list (false before any ran), whatever the
\* command did since; and each of addRuntimePlugin, addRuntimePluginKey and
\* addUmiExports returns a non-empty result exactly when hasModels is true.
C9_HasModels ==
    /\ hasModels = lastNonEmpty
    /\ (addRuntimePlugin # <<>>) = hasModels
    /\ (addRuntimePluginKey # <<>>) = hasModels
    /\ (addUmiExports # <<>>) = hasModels
    /\ out.op = "hooks" =>
          \A i \in 1..3 : (out.ret[i] # <<>>) = hasModels

\* the hooks answer from the last pass although the project is now empty and
\* the command has since listed no model
C9_Witness ==
    /\ out.op = "hooks"
    /\ hasModels
    /\ fs = {}
    /\ \A i \in 1..3 : out.ret[i] # <<>>

\* C10 as claimed: the import identifiers of the generated dva.ts are
\* pairwise distinct, and each registration refers to the identifier of the
\* import at its index.
C10_DistinctIdentifiers ==
    (out.op = "onGenerateFiles" /\ out.writes # <<>>) =>
        LET imports == out.writes[1].content.RegisterModelImports
            regs == out.writes[1].content.RegisterModels
        IN  /\ \A i, j \in 1..Len(imports) :
                  i # j => imports[i].ident # imports[j].ident
            /\ Len(regs) = Len(imports)
            /\ \A i \in 1..Len(imports) : regs[i].ident = imports[i].ident

====
